---- MODULE Spec2Model ----
(***************************************************************************)
(* Model of the minimal Wayland compositor of src/src/main.rs: the accept  *)
(* loop of main, Client::new, Client::handle_message and                   *)
(* Client::send_global_event, over a byte stream per connection.           *)
(*                                                                         *)
(* A u32 is the pair <<hi, lo>> of its 16-bit halves (value hi*2^16+lo),   *)
(* so that the whole 32-bit range, 2^32-1 included, is represented.  The   *)
(* wire carries bytes; the native byte order and the overflow-check flag   *)
(* of the build are chosen in Init and never change.                       *)
(***************************************************************************)
EXTENDS Integers, Sequences, FiniteSets, TLC

\* ------------------------------------------------------------------ bounds
MaxConns == 2      \* connections accepted in one run
MaxReqs  == 2      \* chunks a client sends on one connection
MaxSeq   == 3      \* requests of a client in the runs of SpecCore

\* --------------------------------------------------- protocol constants
WL_DISPLAY_SYNC         == 0
WL_DISPLAY_GET_REGISTRY == 1
WL_REGISTRY_BIND        == 0
WL_CALLBACK_DONE        == 0
DISPLAY_ID  == <<0, 1>>
REGISTRY_ID == <<0, 2>>
\* "wl_compositor", "xdg_wm_base", "wl_shm" as ASCII bytes (interface.as_bytes())
WL_COMPOSITOR_NAME == <<119,108,95,99,111,109,112,111,115,105,116,111,114>>
XDG_WM_BASE_NAME   == <<120,100,103,95,119,109,95,98,97,115,101>>
WL_SHM_NAME        == <<119,108,95,115,104,109>>

HeaderLen == 8
U16Max    == 65535
MaxU32    == <<U16Max, U16Max>>

VARIABLES
    bigEndian,       \* build: TRUE when the target's native byte order is big-endian
    overflowChecks,  \* build: TRUE when integer overflow panics (debug profile)
    pc,              \* main: "accept" | "handle" | "panicked" | "exited"
    conns,           \* number of connections accepted so far
    objects,         \* Client.objects: u32 -> interface name
    next_id,         \* Client.next_id
    stream,          \* peer side of Client.stream: "open" | "eof" | "err"
    inbuf,           \* bytes sent by the client and not yet read
    out,             \* bytes written to the current connection
    sent,            \* chunks the client has sent on the current connection
    last             \* record of the latest handle_message call

vars == <<bigEndian, overflowChecks, pc, conns, objects, next_id, stream,
          inbuf, out, sent, last>>

\* ------------------------------------------------------------ byte codec
\* u32::to_ne_bytes
to_ne_bytes(w, be) ==
    IF be THEN <<w[1] \div 256, w[1] % 256, w[2] \div 256, w[2] % 256>>
          ELSE <<w[2] % 256, w[2] \div 256, w[1] % 256, w[1] \div 256>>

\* u32::from_ne_bytes([b[1], b[2], b[3], b[4]])
from_ne_bytes(b, be) ==
    IF be THEN <<b[1] * 256 + b[2], b[3] * 256 + b[4]>>
          ELSE <<b[4] * 256 + b[3], b[2] * 256 + b[1]>>

\* the u32 of a small number
U32(n) == <<n \div 65536, n % 65536>>

Take(s, n) == SubSeq(s, 1, IF n < Len(s) THEN n ELSE Len(s))
Drop(s, n) == SubSeq(s, n + 1, Len(s))

\* HashMap::insert and HashMap::get
Insert(m, k, v) == [x \in (DOMAIN m) \cup {k} |-> IF x = k THEN v ELSE m[x]]
Get(m, k) == IF k \in DOMAIN m THEN m[k] ELSE "None"
EmptyMap == [x \in {} |-> ""]

\* ------------------------------------------------------ event encoding
\* the response vec! of the sync arm: callback id, then the literal bytes
\* 12, 0, 0, 0 and 0, 0, 0, 0
sync_response(callback_id, be) ==
    to_ne_bytes(callback_id, be) \o <<12, 0, 0, 0>> \o <<0, 0, 0, 0>>

\* mutant: the length of the string taken as it is, not aligned
aligned_len_unaligned(interface_len) == interface_len

\* (interface_len + 3) & !3
aligned_len(interface_len) == ((interface_len + 3) \div 4) * 4

\* while msg.len() < n { msg.push(0) }
RECURSIVE pad_to(_, _)
pad_to(msg, n) == IF Len(msg) < n THEN pad_to(Append(msg, 0), n) ELSE msg

\* the bytes send_global_event builds before write_all
global_event(registry_id, name, interface, version, be) ==
    LET interface_len == Len(interface) + 1
        size == 16 + aligned_len(interface_len)
        \* (size << 16) as u32
        size_opcode == <<size % 65536, 0>>
        msg == to_ne_bytes(registry_id, be) \o to_ne_bytes(size_opcode, be)
               \o to_ne_bytes(name, be) \o interface \o <<0>>
    IN  pad_to(msg, size - 4) \o to_ne_bytes(version, be)

\* the three send_global_event calls of the get_registry arm, in call order
registry_globals(registry_id, be) ==
    << global_event(registry_id, U32(1), WL_COMPOSITOR_NAME, U32(4), be),
       global_event(registry_id, U32(2), XDG_WM_BASE_NAME, U32(3), be),
       global_event(registry_id, U32(3), WL_SHM_NAME, U32(1), be) >>

\* mutant: the error of a failed call is dropped and the later calls are made
RECURSIVE write_all_seq_continues(_, _, _, _)
write_all_seq_continues(msgs, k, wf, wpart) ==
    IF k > Len(msgs) THEN [ok |-> TRUE, bytes |-> <<>>, writes |-> 0]
    ELSE LET rest == write_all_seq_continues(msgs, k + 1, wf, wpart)
         IN  IF k = wf
             THEN [ok |-> rest.ok, bytes |-> Take(msgs[k], wpart) \o rest.bytes,
                   writes |-> rest.writes]
             ELSE [ok |-> rest.ok, bytes |-> msgs[k] \o rest.bytes,
                   writes |-> rest.writes + 1]

\* A run of write_all calls, each followed by `?`: the wf-th call fails
\* (wf = 0: none does) after transmitting wpart bytes of its buffer; no call
\* after a failed one is made.
RECURSIVE write_all_seq(_, _, _, _)
write_all_seq(msgs, k, wf, wpart) ==
    IF k > Len(msgs) THEN [ok |-> TRUE, bytes |-> <<>>, writes |-> 0]
    ELSE IF k = wf THEN [ok |-> FALSE, bytes |-> Take(msgs[k], wpart), writes |-> 0]
    ELSE LET rest == write_all_seq(msgs, k + 1, wf, wpart)
         IN  [ok |-> rest.ok, bytes |-> msgs[k] \o rest.bytes,
              writes |-> rest.writes + 1]

\* ------------------------------------------------------ handle_message
\* mutant: every failure of the header's read_exact is returned as an error
read_header_failure_strict(st) == "Err"

\* outcome of the header's read_exact when fewer than 8 bytes arrive before
\* the stream ends: UnexpectedEof gives Ok(false), any other error is returned
read_header_failure(st) == IF st = "eof" THEN "Ok(false)" ELSE "Err"

\* size as usize - 8; a negative value stands for the underflow
body_size(size) == size - 8

\* outcome of the body's read_exact when the stream ends first: `?`
read_body_failure(st) == "Err"

\* registry_id + 1 on u32: "panic" under overflow checks, else wrapping
next_id_after(registry_id, oc) ==
    IF registry_id[2] < U16Max THEN [status |-> "ok", value |-> <<registry_id[1], registry_id[2] + 1>>]
    ELSE IF registry_id[1] < U16Max THEN [status |-> "ok", value |-> <<registry_id[1] + 1, 0>>]
    ELSE IF oc THEN [status |-> "panic", value |-> registry_id]
    ELSE [status |-> "ok", value |-> <<0, 0>>]

\* mutant: the bind arm tried before the two display arms
match_arm_bind_first(objs, obj_id, opcode) ==
    IF opcode = WL_REGISTRY_BIND /\ Get(objs, obj_id) = "wl_registry" THEN "bind"
    ELSE IF obj_id = DISPLAY_ID /\ opcode = WL_DISPLAY_SYNC THEN "sync"
    ELSE IF obj_id = DISPLAY_ID /\ opcode = WL_DISPLAY_GET_REGISTRY THEN "get_registry"
    ELSE "unknown"

\* mutant: the bind arm without its guard on the object table
match_arm_unguarded(objs, obj_id, opcode) ==
    IF obj_id = DISPLAY_ID /\ opcode = WL_DISPLAY_SYNC THEN "sync"
    ELSE IF obj_id = DISPLAY_ID /\ opcode = WL_DISPLAY_GET_REGISTRY THEN "get_registry"
    ELSE IF opcode = WL_REGISTRY_BIND THEN "bind"
    ELSE "unknown"

\* the arm of `match (obj_id, opcode)` that is taken
match_arm(objs, obj_id, opcode) ==
    IF obj_id = DISPLAY_ID /\ opcode = WL_DISPLAY_SYNC THEN "sync"
    ELSE IF obj_id = DISPLAY_ID /\ opcode = WL_DISPLAY_GET_REGISTRY THEN "get_registry"
    ELSE IF opcode = WL_REGISTRY_BIND /\ Get(objs, obj_id) = "wl_registry" THEN "bind"
    ELSE "unknown"

NoCall ==
    [stage |-> "none", hdr |-> 0, obj_id |-> <<0, 0>>, size |-> 0, opcode |-> 0,
     body |-> <<>>, arm |-> "none", result |-> "none", written |-> <<>>,
     writes |-> 0, pre_objects |-> EmptyMap, pre_next_id |-> <<0, 0>>,
     log |-> "", println |-> ""]

\* mutant: a sync arm that keeps the entry of an id already in the table
sync_arm_keeps(objs, nid, body, be, wf, wpart) ==
    IF Len(body) < 4
    THEN [objects |-> objs, next_id |-> nid, result |-> "panic",
          written |-> <<>>, writes |-> 0, log |-> ""]
    ELSE LET callback_id == from_ne_bytes(SubSeq(body, 1, 4), be)
             w == write_all_seq(<<sync_response(callback_id, be)>>, 1, wf, wpart)
         IN  [objects |-> IF callback_id \in DOMAIN objs THEN objs
                          ELSE Insert(objs, callback_id, "wl_callback"),
              next_id |-> nid,
              result |-> IF w.ok THEN "Ok(true)" ELSE "Err",
              written |-> w.bytes, writes |-> w.writes, log |-> ""]

\* the sync arm
sync_arm(objs, nid, body, be, wf, wpart) ==
    IF Len(body) < 4
    THEN \* body[0..3]: index out of bounds
         [objects |-> objs, next_id |-> nid, result |-> "panic",
          written |-> <<>>, writes |-> 0, log |-> ""]
    ELSE LET callback_id == from_ne_bytes(SubSeq(body, 1, 4), be)
             w == write_all_seq(<<sync_response(callback_id, be)>>, 1, wf, wpart)
         IN  [objects |-> Insert(objs, callback_id, "wl_callback"), next_id |-> nid,
              result |-> IF w.ok THEN "Ok(true)" ELSE "Err",
              written |-> w.bytes, writes |-> w.writes, log |-> ""]

\* the get_registry arm
get_registry_arm(objs, nid, body, be, oc, wf, wpart) ==
    IF Len(body) < 4
    THEN [objects |-> objs, next_id |-> nid, result |-> "panic",
          written |-> <<>>, writes |-> 0, log |-> ""]
    ELSE LET registry_id == from_ne_bytes(SubSeq(body, 1, 4), be)
             objs2 == Insert(objs, registry_id, "wl_registry")
             n == next_id_after(registry_id, oc)
             w == write_all_seq(registry_globals(registry_id, be), 1, wf, wpart)
         IN  IF n.status = "panic"
             THEN [objects |-> objs2, next_id |-> nid, result |-> "panic",
                   written |-> <<>>, writes |-> 0, log |-> ""]
             ELSE [objects |-> objs2, next_id |-> n.value,
                   result |-> IF w.ok THEN "Ok(true)" ELSE "Err",
                   written |-> w.bytes, writes |-> w.writes, log |-> ""]

\* mutant: a bind arm that creates an object under the next free id
bind_arm_creates(objs, nid) ==
    [objects |-> Insert(objs, nid, "wl_compositor"), next_id |-> nid,
     result |-> "Ok(true)", written |-> <<>>, writes |-> 0, log |-> ""]

\* the wl_registry.bind arm: empty
bind_arm(objs, nid) ==
    [objects |-> objs, next_id |-> nid, result |-> "Ok(true)",
     written |-> <<>>, writes |-> 0, log |-> ""]

\* the `_` arm: eprintln!
unknown_arm(objs, nid) ==
    [objects |-> objs, next_id |-> nid, result |-> "Ok(true)",
     written |-> <<>>, writes |-> 0, log |-> "Unknown message"]

\* mutant: reads that do not block (they fail at once when bytes are missing)
can_return_nonblocking(buf, st, be) == TRUE

\* TRUE when the blocking reads of one handle_message call can all return:
\* the bytes are there, or the stream has ended
can_return(buf, st, be) ==
    \/ st # "open"
    \/ /\ Len(buf) >= HeaderLen
       /\ LET size == from_ne_bytes(SubSeq(buf, 5, 8), be)[1]
          IN  body_size(size) < 0 \/ Len(buf) - HeaderLen >= body_size(size)

\* One call of Client::handle_message on (objects, next_id) with the unread
\* bytes buf of a stream in state st.  Gives the new fields, the unread bytes
\* left, the bytes written and the record of the call.
handle_message(objs, nid, buf, st, be, oc, wf, wpart) ==
    LET base == [NoCall EXCEPT !.pre_objects = objs, !.pre_next_id = nid] IN
    IF Len(buf) < HeaderLen
    THEN [objects |-> objs, next_id |-> nid, inbuf |-> <<>>, written |-> <<>>,
          last |-> [base EXCEPT !.stage = "header", !.hdr = Len(buf),
                                !.result = read_header_failure(st)]]
    ELSE
    LET obj_id == from_ne_bytes(SubSeq(buf, 1, 4), be)
        size_opcode == from_ne_bytes(SubSeq(buf, 5, 8), be)
        size == size_opcode[1]                \* size_opcode >> 16
        opcode == size_opcode[2]              \* size_opcode & 0xFFFF
        rest == Drop(buf, HeaderLen)
        hd == [base EXCEPT !.hdr = HeaderLen, !.obj_id = obj_id, !.size = size,
                           !.opcode = opcode]
    IN
    IF body_size(size) < 0
    THEN \* subtraction overflow, or a wrapped length that vec! cannot allocate
         [objects |-> objs, next_id |-> nid, inbuf |-> rest, written |-> <<>>,
          last |-> [hd EXCEPT !.stage = "size", !.result = "panic"]]
    ELSE IF Len(rest) < body_size(size)
    THEN [objects |-> objs, next_id |-> nid, inbuf |-> <<>>, written |-> <<>>,
          last |-> [hd EXCEPT !.stage = "body", !.body = rest,
                              !.result = read_body_failure(st)]]
    ELSE
    LET body == Take(rest, body_size(size))
        arm == match_arm(objs, obj_id, opcode)
        r == CASE arm = "sync" -> sync_arm(objs, nid, body, be, wf, wpart)
               [] arm = "get_registry" -> get_registry_arm(objs, nid, body, be, oc, wf, wpart)
               [] arm = "bind" -> bind_arm(objs, nid)
               [] OTHER -> unknown_arm(objs, nid)
    IN  [objects |-> r.objects, next_id |-> r.next_id,
         inbuf |-> Drop(rest, body_size(size)), written |-> r.written,
         last |-> [hd EXCEPT !.stage = "dispatch", !.body = body, !.arm = arm,
                             !.result = r.result, !.written = r.written,
                             !.writes = r.writes, !.log = r.log]]

\* ------------------------------------------------------------- clients
\* new_id values a client puts in a sync or get_registry body
NewIds == {U32(1), U32(2), MaxU32}

\* a request header in the native byte order
Hdr(obj_id, size, opcode, be) ==
    to_ne_bytes(obj_id, be) \o to_ne_bytes(<<size, opcode>>, be)

\* What a client sends in one go: well-formed requests, requests the server
\* does not know, headers with a size under 8, sync and get_registry requests
\* without a whole new_id, and messages cut short.
Chunks(be) ==
    {Hdr(DISPLAY_ID, 12, WL_DISPLAY_SYNC, be) \o to_ne_bytes(c, be) : c \in NewIds}
    \cup {Hdr(DISPLAY_ID, 12, WL_DISPLAY_GET_REGISTRY, be) \o to_ne_bytes(r, be) : r \in NewIds}
    \cup {Hdr(U32(2), 16, WL_REGISTRY_BIND, be) \o to_ne_bytes(U32(1), be) \o to_ne_bytes(U32(3), be)}
    \cup {Hdr(DISPLAY_ID, 8, 2, be), Hdr(U32(2), 8, 1, be)}
    \cup {Hdr(DISPLAY_ID, 0, 0, be), Hdr(U32(2), 7, 0, be)}
    \cup {Hdr(DISPLAY_ID, 8, WL_DISPLAY_SYNC, be), Hdr(DISPLAY_ID, 10, WL_DISPLAY_GET_REGISTRY, be) \o <<2, 0>>}
    \cup {Take(Hdr(DISPLAY_ID, 12, WL_DISPLAY_SYNC, be), n) : n \in {1, 4, 7}}
    \cup {Hdr(DISPLAY_ID, 12, WL_DISPLAY_SYNC, be) \o <<2, 0>>}

\* bytes a failing write_all has transmitted before it fails
WriteParts == {0, 4}

\* ---------------------------------------------------------------- main
\* mutant: a table and a counter shared by all connections
Client_new_shared ==
    [objects |-> Insert(objects, DISPLAY_ID, "wl_display"),
     next_id |-> IF conns = 0 THEN REGISTRY_ID ELSE next_id]

\* Client::new
Client_new ==
    [objects |-> Insert(EmptyMap, DISPLAY_ID, "wl_display"), next_id |-> REGISTRY_ID]

\* the line main prints for a result of handle_message
main_println(result) ==
    CASE result = "Ok(false)" -> "Client disconnected"
      [] result = "Err" -> "Error handling client message"
      [] OTHER -> ""

\* mutant: the inner loop continues after an error
main_after_continues(result) ==
    CASE result = "Ok(true)" -> "handle"
      [] result = "Ok(false)" -> "accept"
      [] result = "Err" -> "handle"
      [] OTHER -> "panicked"

\* where main goes after a result of handle_message: continue, break (to the
\* next iteration of the accept loop), or the panic unwinds main
main_after(result) ==
    CASE result = "Ok(true)" -> "handle"
      [] result = "Ok(false)" -> "accept"
      [] result = "Err" -> "accept"
      [] OTHER -> "panicked"

Init ==
    /\ bigEndian \in BOOLEAN
    /\ overflowChecks \in BOOLEAN
    /\ pc = "accept"
    /\ conns = 0
    /\ objects = EmptyMap
    /\ next_id = <<0, 0>>
    /\ stream = "none"
    /\ inbuf = <<>>
    /\ out = <<>>
    /\ sent = 0
    /\ last = NoCall

\* syscall::dup(listener, "listen") succeeds: a connection, and Client::new
Accept ==
    /\ pc = "accept"
    /\ conns < MaxConns
    /\ conns' = conns + 1
    /\ objects' = Client_new.objects
    /\ next_id' = Client_new.next_id
    /\ stream' = "open"
    /\ inbuf' = <<>>
    /\ out' = <<>>
    /\ sent' = 0
    /\ last' = NoCall
    /\ pc' = "handle"
    /\ UNCHANGED <<bigEndian, overflowChecks>>

\* syscall::dup fails: `?` returns the error from main
AcceptFail ==
    /\ pc = "accept"
    /\ pc' = "exited"
    /\ UNCHANGED <<bigEndian, overflowChecks, conns, objects, next_id, stream,
                   inbuf, out, sent, last>>

\* the client of the current connection sends a chunk
ClientSend ==
    /\ pc = "handle"
    /\ stream = "open"
    /\ inbuf = <<>>
    /\ sent < MaxReqs
    /\ \E chunk \in Chunks(bigEndian) : inbuf' = chunk
    /\ sent' = sent + 1
    /\ UNCHANGED <<bigEndian, overflowChecks, pc, conns, objects, next_id,
                   stream, out, last>>

\* the client closes its end: reads return end-of-stream after the unread bytes
ClientClose ==
    /\ pc = "handle"
    /\ stream = "open"
    /\ stream' = "eof"
    /\ UNCHANGED <<bigEndian, overflowChecks, pc, conns, objects, next_id,
                   inbuf, out, sent, last>>

\* the connection breaks: reads return an error other than end-of-stream
StreamError ==
    /\ pc = "handle"
    /\ stream = "open"
    /\ stream' = "err"
    /\ UNCHANGED <<bigEndian, overflowChecks, pc, conns, objects, next_id,
                   inbuf, out, sent, last>>

\* one iteration of main's inner loop: client.handle_message() and the match
\* on its result
HandleMessage ==
    /\ pc = "handle"
    /\ can_return(inbuf, stream, bigEndian)
    /\ \E wf \in 0..3, wpart \in WriteParts :
         LET h == handle_message(objects, next_id, inbuf, stream, bigEndian,
                                 overflowChecks, wf, wpart)
         IN  /\ objects' = h.objects
             /\ next_id' = h.next_id
             /\ inbuf' = h.inbuf
             /\ out' = out \o h.written
             /\ last' = [h.last EXCEPT !.println = main_println(h.last.result)]
             /\ pc' = main_after(h.last.result)
    /\ UNCHANGED <<bigEndian, overflowChecks, conns, stream, sent>>

Next ==
    \/ Accept
    \/ AcceptFail
    \/ ClientSend
    \/ ClientClose
    \/ StreamError
    \/ HandleMessage

Spec == Init /\ [][Next]_vars

\* ------------------------------------------- longer runs of few requests
\* Connections whose client sends only well-formed requests, up to MaxSeq of
\* them: sync with new_id 2, get_registry with new_id 1 or 2, and opcode 0 on
\* id 2.  These are the runs in which an id is registered, registered again
\* and then addressed.
CoreChunks(be) ==
    {Hdr(DISPLAY_ID, 12, WL_DISPLAY_SYNC, be) \o to_ne_bytes(U32(2), be)}
    \cup {Hdr(DISPLAY_ID, 12, WL_DISPLAY_GET_REGISTRY, be) \o to_ne_bytes(r, be) : r \in {U32(1), U32(2)}}
    \cup {Hdr(U32(2), 16, WL_REGISTRY_BIND, be) \o to_ne_bytes(U32(1), be) \o to_ne_bytes(U32(3), be)}

ClientSendCore ==
    /\ pc = "handle"
    /\ stream = "open"
    /\ inbuf = <<>>
    /\ sent < MaxSeq
    /\ \E chunk \in CoreChunks(bigEndian) : inbuf' = chunk
    /\ sent' = sent + 1
    /\ UNCHANGED <<bigEndian, overflowChecks, pc, conns, objects, next_id,
                   stream, out, last>>

NextCore ==
    \/ Accept
    \/ AcceptFail
    \/ ClientSendCore
    \/ ClientClose
    \/ StreamError
    \/ HandleMessage

SpecCore == Init /\ [][NextCore]_vars

\* ================================================================ claims
\* The wire format as the specification states it, used to say what an event
\* is expected to look like: header (object id, (len << 16) | opcode) with
\* len = 8 + payload length, and a string as its bytes, a zero byte and zero
\* padding up to a multiple of 4.
ExpectedString(str) ==
    str \o [i \in 1..((((Len(str) + 1 + 3) \div 4) * 4) - Len(str)) |-> 0]

ExpectedEvent(object_id, opcode, payload, be) ==
    to_ne_bytes(object_id, be) \o to_ne_bytes(<<8 + Len(payload), opcode>>, be)
    \o payload

ExpectedGlobal(r, name, interface, version, be) ==
    ExpectedEvent(r, 0, to_ne_bytes(U32(name), be) \o ExpectedString(interface)
                        \o to_ne_bytes(U32(version), be), be)

\* the new_id of the request of the latest call (its body has 4 bytes or more)
LastNewId == from_ne_bytes(SubSeq(last.body, 1, 4), bigEndian)

\* the latest call handled a sync / get_registry request that carries a new_id,
\* and no write of it failed
SyncHandled ==
    last.arm = "sync" /\ Len(last.body) >= 4 /\ last.result # "Err"
GetRegistryHandled ==
    last.arm = "get_registry" /\ Len(last.body) >= 4 /\ last.result # "Err"

\* C1: handling wl_display.sync with callback id c writes exactly one event of
\* 12 bytes: the id c, the word (12 << 16) | 0, and 4 zero bytes.
C1_SyncWritesDoneEvent ==
    SyncHandled =>
        /\ Len(last.written) = 12
        /\ last.written = to_ne_bytes(LastNewId, bigEndian)
                          \o to_ne_bytes(<<12, WL_CALLBACK_DONE>>, bigEndian)
                          \o <<0, 0, 0, 0>>

\* C2: handling wl_display.get_registry with new_id r writes exactly the three
\* global events (1, wl_compositor, 4), (2, xdg_wm_base, 3), (3, wl_shm, 1),
\* addressed to r, in this order with nothing between them.
C2_GetRegistryWritesThreeGlobals ==
    GetRegistryHandled =>
        /\ last.writes = 3
        /\ last.written =
              ExpectedGlobal(LastNewId, 1, WL_COMPOSITOR_NAME, 4, bigEndian)
              \o ExpectedGlobal(LastNewId, 2, XDG_WM_BASE_NAME, 3, bigEndian)
              \o ExpectedGlobal(LastNewId, 3, WL_SHM_NAME, 1, bigEndian)

\* r + 1 as a number, compared with a u32 (2^32 is no u32)
IsSuccessor(n, r) ==
    IF r[2] < U16Max THEN n = <<r[1], r[2] + 1>>
    ELSE r[1] < U16Max /\ n = <<r[1] + 1, 0>>

\* C3: for every 32-bit r, after handling get_registry with new_id r the table
\* maps r to wl_registry, next-id is r + 1 and the connection is still Active;
\* from the initial state with r = 2 the table is {1: wl_display, 2: wl_registry}.
C3_RegistryRegistered ==
    GetRegistryHandled =>
        /\ Get(objects, LastNewId) = "wl_registry"
        /\ IsSuccessor(next_id, LastNewId)
        /\ pc = "handle"
        /\ (last.pre_objects = Client_new.objects /\ LastNewId = U32(2)) =>
               objects = Insert(Insert(EmptyMap, U32(1), "wl_display"),
                                U32(2), "wl_registry")

\* the latest call dispatched a well-framed request (size >= 8, body read)
Dispatched == last.stage = "dispatch"

\* C4 as stated: a request with opcode 0 to any id the table does not map to
\* wl_registry, id 1 included, is handled as an unknown message: nothing is
\* written and the table is unchanged.
C4_Opcode0OnNonRegistryIsUnknown ==
    (Dispatched /\ last.opcode = 0
       /\ Get(last.pre_objects, last.obj_id) # "wl_registry") =>
        /\ last.arm = "unknown"
        /\ last.written = <<>>
        /\ objects = last.pre_objects

\* C4 amended: the same for every id other than 1 (on id 1 opcode 0 is sync).
C4_Opcode0OnOtherNonRegistryIsUnknown ==
    (Dispatched /\ last.opcode = 0 /\ last.obj_id # DISPLAY_ID
       /\ Get(last.pre_objects, last.obj_id) # "wl_registry") =>
        /\ last.arm = "unknown"
        /\ last.log = "Unknown message"
        /\ last.result = "Ok(true)"
        /\ last.written = <<>>
        /\ objects = last.pre_objects

C4_Witness ==
    /\ Dispatched /\ last.opcode = 0 /\ last.obj_id = U32(2)
    /\ Get(last.pre_objects, U32(2)) = "wl_callback"
    /\ last.arm = "unknown" /\ pc = "handle"

\* C5: when the stream ends after 1 to 7 bytes of a header, the outcome of the
\* connection is an error, not a clean disconnect.
C5_PartialHeaderIsError ==
    (last.stage = "header" /\ last.hdr \in 1..7 /\ stream = "eof") =>
        /\ last.result = "Err"
        /\ last.println = "Error handling client message"

\* C6: when the stream ends at a header boundary (no byte of the next header
\* read), the call reports a clean disconnect, the connection's loop exits and
\* main is back at accepting the next connection.
C6_EofAtBoundaryIsCleanDisconnect ==
    [][(pc = "handle" /\ stream = "eof" /\ inbuf = <<>>) =>
          /\ last'.stage = "header" /\ last'.hdr = 0
          /\ last'.result = "Ok(false)"
          /\ last'.println = "Client disconnected"
          /\ pc' = "accept"
          /\ out' = out /\ objects' = objects]_vars

C6_Witness ==
    /\ pc = "accept" /\ sent = 0 /\ stream = "eof"
    /\ last.stage = "header" /\ last.hdr = 0
    /\ last.result = "Ok(false)" /\ last.println = "Client disconnected"

\* C7: a header whose size field is below 8 gives an I/O error outcome that
\* ends the connection's loop, writes nothing and changes no table entry, and
\* the server process does not crash.
C7_SmallSizeIsIoError ==
    (last.hdr = HeaderLen /\ last.size < 8) =>
        /\ last.result = "Err"
        /\ pc # "panicked"
        /\ last.written = <<>>
        /\ objects = last.pre_objects

\* C8: whatever bytes a client sends, the server process never terminates.
C8_ServerNeverCrashes == pc # "panicked"

\* C9: every well-framed request other than (1, 0) and (1, 1) leaves the table
\* and next-id unchanged, writes nothing, creates no object and leaves the
\* connection Active (the loop goes on to read the next request).
C9_OtherRequestsChangeNothing ==
    (Dispatched /\ ~(last.obj_id = DISPLAY_ID /\ last.opcode \in {0, 1})) =>
        /\ last.arm \in {"bind", "unknown"}
        /\ objects = last.pre_objects
        /\ next_id = last.pre_next_id
        /\ last.written = <<>>
        /\ last.result = "Ok(true)"
        /\ pc = "handle"

C9_Witness ==
    /\ Dispatched /\ last.arm = "bind" /\ last.obj_id = U32(2)
    /\ Len(last.body) = 8
    /\ Get(objects, U32(2)) = "wl_registry" /\ pc = "handle"

\* C10: in every state of a connection the table maps id 1 to wl_display.
C10_DisplayIdStaysDisplay ==
    conns > 0 => Get(objects, DISPLAY_ID) = "wl_display"

\* C11: every wl_display.sync request gets its own done event, addressed to
\* its callback id and written (appended to what the connection has received
\* so far) within the call that reads the request, before the next request is
\* read; and each request registers a distinct callback id: an id that was
\* not in the object table before.
C11_EachSyncOwnEventDistinctId ==
    SyncHandled =>
        /\ last.writes = 1
        /\ Len(last.written) = 12
        /\ SubSeq(last.written, 1, 4) = to_ne_bytes(LastNewId, bigEndian)
        /\ Len(out) >= 12
        /\ SubSeq(out, Len(out) - 11, Len(out)) = last.written
        /\ Get(objects, LastNewId) = "wl_callback"
        /\ LastNewId \notin DOMAIN last.pre_objects

\* C12: one connection at a time.  A connection is accepted only at the accept
\* call, which main reaches only before the first connection or after the
\* current connection's loop has ended with a disconnect or an error; and
\* while the current connection is open and has not sent a whole header, the
\* server takes no step at all: no call returns and no connection is accepted.
C12_OneConnectionAtATime ==
    [][/\ (conns' # conns) =>
            /\ pc = "accept" /\ pc' = "handle"
            /\ conns' = conns + 1
            /\ (conns = 0 \/ last.result \in {"Ok(false)", "Err"})
       /\ (pc = "handle" /\ stream = "open" /\ Len(inbuf) < HeaderLen) =>
            /\ conns' = conns /\ pc' = "handle"
            /\ last' = last /\ objects' = objects /\ next_id' = next_id
            /\ out' = out]_vars

C12_Witness ==
    /\ conns = 2 /\ pc = "handle"
    /\ stream = "open" /\ inbuf = <<>> /\ sent = 0

\* C13: every accepted connection starts with the object table exactly
\* {1: wl_display} and next-id 2, whatever the connection before it
\* registered; no unread byte and no written byte carries over either.
C13_FreshStatePerConnection ==
    [][(conns' # conns) =>
          /\ objects' = Insert(EmptyMap, U32(1), "wl_display")
          /\ next_id' = U32(2)
          /\ inbuf' = <<>> /\ out' = <<>>]_vars

\* the second connection is being accepted after a connection that registered
\* objects and advanced next-id
C13_Witness ==
    /\ conns = 1 /\ pc = "accept"
    /\ Cardinality(DOMAIN objects) > 1 /\ next_id # U32(2)
    /\ ENABLED Accept

\* Decoding the bytes of one call as a run of n events the way request headers
\* are decoded (object id, size = word >> 16, opcode = word & 0xFFFF): each
\* header gives the object id id and opcode 0, and its size is the number of
\* bytes of that event, so that n events use up the bytes exactly.
RECURSIVE DecodesAsEvents(_, _, _, _)
DecodesAsEvents(bytes, id, n, be) ==
    IF n = 0 THEN bytes = <<>>
    ELSE /\ Len(bytes) >= HeaderLen
         /\ from_ne_bytes(SubSeq(bytes, 1, 4), be) = id
         /\ LET size_opcode == from_ne_bytes(SubSeq(bytes, 5, 8), be)
            IN  /\ size_opcode[2] = 0
                /\ size_opcode[1] >= HeaderLen
                /\ size_opcode[1] <= Len(bytes)
                /\ DecodesAsEvents(Drop(bytes, size_opcode[1]), id, n - 1, be)

\* C14: every event the server writes (the done event of a sync, each global
\* event of a get_registry) decodes, the way request headers are decoded, to
\* the addressed object id, opcode 0 and a size equal to the event's bytes.
C14_EventsRoundTrip ==
    (Dispatched /\ last.result = "Ok(true)" /\ last.writes > 0) =>
        DecodesAsEvents(last.written, LastNewId, last.writes, bigEndian)

\* the bytes a name of n bytes occupies as a string argument
StringFieldLen(n) == ((n + 1 + 3) \div 4) * 4

\* ev is a global event whose string argument, at offset 12, is name followed
\* by one to four zero bytes up to a multiple of 4, directly followed by the
\* version word, which ends the event
HasStringField(ev, name, version, be) ==
    LET n == Len(name)
        f == StringFieldLen(n)
    IN  /\ f % 4 = 0 /\ f > n /\ f - n <= 4
        /\ Len(ev) = 12 + f + 4
        /\ SubSeq(ev, 13, 12 + n) = name
        /\ \A i \in (12 + n + 1)..(12 + f) : ev[i] = 0
        /\ SubSeq(ev, 12 + f + 1, 12 + f + 4) = to_ne_bytes(U32(version), be)

\* C15: in each global event the interface string is the name's bytes, at
\* least one zero byte and zero padding to the next multiple of 4 (wl_shm
\* occupies 8 bytes, xdg_wm_base 12), and the version word follows at once.
C15_InterfaceStringPadded ==
    (last.arm = "get_registry" /\ last.result = "Ok(true)") =>
        /\ Len(last.written) = 32 + 28 + 24
        /\ HasStringField(SubSeq(last.written, 1, 32), WL_COMPOSITOR_NAME, 4, bigEndian)
        /\ HasStringField(SubSeq(last.written, 33, 60), XDG_WM_BASE_NAME, 3, bigEndian)
        /\ HasStringField(SubSeq(last.written, 61, 84), WL_SHM_NAME, 1, bigEndian)
        /\ SubSeq(last.written, 61 + 12, 61 + 12 + 7) = WL_SHM_NAME \o <<0, 0>>
        /\ SubSeq(last.written, 33 + 12, 33 + 12 + 11) = XDG_WM_BASE_NAME \o <<0>>

C15_Witness ==
    /\ last.arm = "get_registry" /\ last.result = "Ok(true)"
    /\ last.writes = 3 /\ Len(last.written) = 84

\* a <= b on u32
U32Leq(a, b) == a[1] < b[1] \/ (a[1] = b[1] /\ a[2] <= b[2])

\* C16: next-id starts at 2, changes only when a get_registry request is
\* handled, and no call leaves it lower than it was before the call.
C16_NextIdMonotonic ==
    /\ (conns > 0 /\ last = NoCall) => next_id = U32(2)
    /\ (last.stage # "none") =>
          /\ U32Leq(last.pre_next_id, next_id)
          /\ (next_id # last.pre_next_id => last.arm = "get_registry")

\* C17: a request (1, 0) is always handled as sync and (1, 1) as get_registry,
\* whatever the table maps id 1 to; also when id 1 is mapped to wl_registry a
\* request (1, 0) registers its callback and gets its 12-byte event addressed
\* to the callback, and is never taken as a bind.
C17_DisplayArmsFirst ==
    (Dispatched /\ last.obj_id = DISPLAY_ID) =>
        /\ last.opcode = 0 => last.arm = "sync"
        /\ last.opcode = 1 => last.arm = "get_registry"
        /\ (last.opcode = 0 /\ Len(last.body) >= 4) =>
              /\ Get(objects, LastNewId) = "wl_callback"
              /\ last.result = "Ok(true)" =>
                    /\ Len(last.written) = 12
                    /\ SubSeq(last.written, 1, 4) = to_ne_bytes(LastNewId, bigEndian)

C17_Witness ==
    /\ Dispatched /\ last.obj_id = DISPLAY_ID /\ last.opcode = 0
    /\ Get(last.pre_objects, DISPLAY_ID) = "wl_registry"
    /\ last.arm = "sync" /\ last.result = "Ok(true)"
    /\ Get(objects, LastNewId) = "wl_callback" /\ Len(last.written) = 12

\* the latest call ended the connection: end-of-stream at the header read
\* (Ok(false)) or an I/O error of a read or a write (Err)
ConnectionClosed == last.result \in {"Ok(false)", "Err"}

\* C18: Closed is terminal.  A call that ends the connection takes main out
\* of the connection's loop, and from then on, until another connection is
\* accepted, no call is made on that connection: nothing more is read from
\* it, dispatched or written to it, and its table and next-id stay as they are.
C18_ClosedIsTerminal ==
    [][/\ (last' # last /\ last'.result \in {"Ok(false)", "Err"}) => pc' = "accept"
       /\ (ConnectionClosed /\ conns' = conns) =>
            /\ pc' # "handle"
            /\ last' = last /\ inbuf' = inbuf /\ out' = out
            /\ objects' = objects /\ next_id' = next_id]_vars

\* a connection closed by an I/O error of the read of a request's body
C18_Witness ==
    /\ ConnectionClosed /\ last.result = "Err" /\ last.stage = "body"
    /\ pc = "accept" /\ stream = "err"

\* the three global events of a get_registry with new_id r, end to end
ExpectedGlobals(r, be) ==
    ExpectedGlobal(r, 1, WL_COMPOSITOR_NAME, 4, be)
    \o ExpectedGlobal(r, 2, XDG_WM_BASE_NAME, 3, be)
    \o ExpectedGlobal(r, 3, WL_SHM_NAME, 1, be)

\* the offsets at which the three global events end
GlobalEnds == <<0, 32, 60, 84>>

\* C19: a write failure while answering a request is that connection's error
\* outcome.  A get_registry call either writes its three global events and
\* returns Ok(true), or its k-th write fails: then the events before the k-th
\* are on the wire, the k-th is cut short, no later one is written, the result
\* is Err, main prints the error and goes back to accept.  A sync call whose
\* write fails ends the same way.
C19_WriteFailureEndsConnection ==
    [][(last' # last /\ last'.stage = "dispatch" /\ Len(last'.body) >= 4
          /\ last'.result # "panic" /\ last'.arm \in {"sync", "get_registry"}) =>
         LET l == last'
             r == from_ne_bytes(SubSeq(l.body, 1, 4), bigEndian)
             n == Len(l.written)
             failed == /\ l.result = "Err"
                       /\ l.println = "Error handling client message"
                       /\ pc' = "accept"
                       /\ out' = out \o l.written
         IN  IF l.arm = "get_registry"
             THEN \/ /\ l.result = "Ok(true)" /\ l.writes = 3
                     /\ l.written = ExpectedGlobals(r, bigEndian)
                  \/ /\ failed
                     /\ l.writes \in 0..2
                     /\ l.written = Take(ExpectedGlobals(r, bigEndian), n)
                     /\ GlobalEnds[l.writes + 1] <= n
                     /\ n < GlobalEnds[l.writes + 2]
             ELSE \/ l.result = "Ok(true)" /\ l.writes = 1 /\ n = 12
                  \/ failed /\ l.writes = 0 /\ n < 12]_vars

\* the second global event's write failed after 4 bytes
C19_Witness ==
    /\ last.arm = "get_registry" /\ last.result = "Err"
    /\ last.writes = 1 /\ Len(last.written) = 32 + 4
    /\ last.println = "Error handling client message"
    /\ pc = "accept"

\* the interface a call registers its new_id as
RegisteredAs(arm) == IF arm = "sync" THEN "wl_callback" ELSE "wl_registry"

\* Registration is last-writer-wins and removes nothing: a sync or
\* get_registry call maps its new_id to wl_callback or wl_registry, also when
\* the id was a key before, and leaves every other entry as it was; no call
\* removes a key.
LastWriterWins ==
    /\ (last.stage # "none") => (DOMAIN last.pre_objects) \subseteq (DOMAIN objects)
    /\ (Dispatched /\ last.arm \in {"sync", "get_registry"} /\ Len(last.body) >= 4) =>
          /\ DOMAIN objects = (DOMAIN last.pre_objects) \cup {LastNewId}
          /\ objects[LastNewId] = RegisteredAs(last.arm)
          /\ \A k \in (DOMAIN last.pre_objects) \ {LastNewId} :
                objects[k] = last.pre_objects[k]

\* C20 as stated: registration is last-writer-wins and removes nothing, and a
\* request with opcode 0 on an id is accepted as a bind exactly when the most
\* recent registration of that id (the table's entry) is wl_registry.
C20_LastWriterWinsBindIffRegistry ==
    /\ LastWriterWins
    /\ (Dispatched /\ last.opcode = 0) =>
          (last.arm = "bind" <=> Get(last.pre_objects, last.obj_id) = "wl_registry")

\* C20 amended: the same, for opcode 0 on every id other than 1 (on id 1
\* opcode 0 is sync, whatever id 1 was registered as).
C20_LastWriterWinsBindIffRegistryNot1 ==
    /\ LastWriterWins
    /\ (Dispatched /\ last.opcode = 0 /\ last.obj_id # DISPLAY_ID) =>
          /\ last.arm \in {"bind", "unknown"}
          /\ last.arm = "bind" <=> Get(last.pre_objects, last.obj_id) = "wl_registry"

\* opcode 0 on id 2 handled as an unknown message after get_registry
\* registered 2 (next-id is 3) and a sync then reused it
C20_Witness ==
    /\ Dispatched /\ last.opcode = 0 /\ last.obj_id = U32(2)
    /\ next_id = U32(3)
    /\ Get(last.pre_objects, U32(2)) = "wl_callback"
    /\ last.arm = "unknown" /\ last.log = "Unknown message"

====
